---- MODULE Spec2Model ----
(***************************************************************************)
(* Court Data Fetcher (epsilon003/Illegally-Blonde).                       *)
(*                                                                         *)
(* A model of utils_module.py (validators and text normalizers),           *)
(* scraper.py (CourtScraper: fetching and extraction) and app.py (the      *)
(* request handlers).                                                      *)
(*                                                                         *)
(* Python values are represented uniformly:                                *)
(*   - a str is a sequence of one-character strings, "ab" = <<"a", "b">>;   *)
(*   - None is the one-element sequence <<"None">> (no str, since "None"   *)
(*     is not one character);                                              *)
(*   - a message literal of the code is the one-element sequence holding   *)
(*     the whole message;                                                  *)
(*   - a tuple is a tuple.                                                 *)
(***************************************************************************)
EXTENDS Integers, Sequences, FiniteSets, TLC

VARIABLES
    pc,         \* position of the caller of a utility function
    arg,        \* the argument the utility function is called with
    ret,        \* what the call returned
    ret2,       \* what a second call, on the first call's result, returned
    current_year,   \* datetime.now().year
    strftime_pads,  \* whether the platform's strftime pads %Y to four digits
    driver,     \* the browser session of the CourtScraper of the request in hand
    page,       \* the page the portal served to that session
    result,     \* what the scraper returned to the request handler
    queries,    \* the rows of the table queries of court_data.db
    judgments,  \* the rows of the table judgments of court_data.db
    downloads   \* the files in the directory downloads

\* the environment of the process: the clock and the C library
env == <<current_year, strftime_pads>>

\* the scraper and the database of the web application
web == <<driver, page, result, queries, judgments, downloads>>

vars == <<pc, arg, ret, ret2, env, web>>

None == <<"None">>

\* the years the clock may show
ClockYears == {2026, 2027}

\* an environment that the function under evaluation does not read: no
\* request is in hand and the database is as init_db leaves it
\* the page of a browser that has loaded nothing
BlankPage == [html |-> <<>>, tables |-> <<>>, links |-> <<>>]

\* no request, no scraper result and no response yet
NoRequest == [path |-> "none"]

NoResult == [status |-> "none"]

NoResponse == [code |-> 0, body |-> NoResult]

InitWebIdle ==
    /\ driver = "none"
    /\ page = BlankPage
    /\ result = NoResult
    /\ queries = <<>>
    /\ judgments = <<>>
    /\ downloads = {}

InitEnvFixed ==
    /\ current_year = 2026
    /\ strftime_pads = TRUE
    /\ InitWebIdle

----------------------------------------------------------------------------
(* Characters and the str methods the code uses.                           *)

Digits == {"0", "1", "2", "3", "4", "5", "6", "7", "8", "9"}

LowerLetters ==
    {"a", "b", "c", "d", "e", "f", "g", "h", "i", "j", "k", "l", "m",
     "n", "o", "p", "q", "r", "s", "t", "u", "v", "w", "x", "y", "z"}

UpperLetters ==
    {"A", "B", "C", "D", "E", "F", "G", "H", "I", "J", "K", "L", "M",
     "N", "O", "P", "Q", "R", "S", "T", "U", "V", "W", "X", "Y", "Z"}

\* str.lower() on one character
LowerChar(c) ==
    CASE c = "A" -> "a" [] c = "B" -> "b" [] c = "C" -> "c" [] c = "D" -> "d"
      [] c = "E" -> "e" [] c = "F" -> "f" [] c = "G" -> "g" [] c = "H" -> "h"
      [] c = "I" -> "i" [] c = "J" -> "j" [] c = "K" -> "k" [] c = "L" -> "l"
      [] c = "M" -> "m" [] c = "N" -> "n" [] c = "O" -> "o" [] c = "P" -> "p"
      [] c = "Q" -> "q" [] c = "R" -> "r" [] c = "S" -> "s" [] c = "T" -> "t"
      [] c = "U" -> "u" [] c = "V" -> "v" [] c = "W" -> "w" [] c = "X" -> "x"
      [] c = "Y" -> "y" [] c = "Z" -> "z" [] OTHER -> c

\* str.upper() on one character
UpperChar(c) ==
    CASE c = "a" -> "A" [] c = "b" -> "B" [] c = "c" -> "C" [] c = "d" -> "D"
      [] c = "e" -> "E" [] c = "f" -> "F" [] c = "g" -> "G" [] c = "h" -> "H"
      [] c = "i" -> "I" [] c = "j" -> "J" [] c = "k" -> "K" [] c = "l" -> "L"
      [] c = "m" -> "M" [] c = "n" -> "N" [] c = "o" -> "O" [] c = "p" -> "P"
      [] c = "q" -> "Q" [] c = "r" -> "R" [] c = "s" -> "S" [] c = "t" -> "T"
      [] c = "u" -> "U" [] c = "v" -> "V" [] c = "w" -> "W" [] c = "x" -> "X"
      [] c = "y" -> "Y" [] c = "z" -> "Z" [] OTHER -> c

Lower(s) == [i \in 1..Len(s) |-> LowerChar(s[i])]

Upper(s) == [i \in 1..Len(s) |-> UpperChar(s[i])]

\* the regular expression class \s, and what str.strip() removes
IsSpace(c) == c \in {" ", "\t", "\n", "\r"}

\* the regular expression class \w
IsWord(c) == c \in Digits \cup LowerLetters \cup UpperLetters \cup {"_"}

RECURSIVE LStrip(_)
LStrip(s) == IF s # <<>> /\ IsSpace(Head(s)) THEN LStrip(Tail(s)) ELSE s

RECURSIVE RStrip(_)
RStrip(s) ==
    IF s # <<>> /\ IsSpace(s[Len(s)]) THEN RStrip(SubSeq(s, 1, Len(s) - 1)) ELSE s

\* str.strip()
Strip(s) == RStrip(LStrip(s))

\* s[a:b] of Python with 0 <= a and any integer b (a negative b counts from the end)
Slice(s, a, b) ==
    LET e == IF b < 0 THEN Len(s) + b ELSE IF b > Len(s) THEN Len(s) ELSE b
    IN  IF e <= a THEN <<>> ELSE SubSeq(s, a + 1, e)

\* does sub occur in s at 1-based position i
OccursAt(sub, s, i) ==
    /\ i >= 1
    /\ i + Len(sub) - 1 <= Len(s)
    /\ \A k \in 1..Len(sub) : s[i + k - 1] = sub[k]

\* sub in s
Contains(s, sub) == \E i \in 1..(Len(s) + 1) : OccursAt(sub, s, i)

\* a str literal as the sequence of its characters
Chars(str) == [i \in 1..Len(str) |-> SubSeq(str, i, i)]

\* all strings over an alphabet, of length at most n
RECURSIVE StringsUpTo(_, _)
StringsUpTo(alphabet, n) ==
    IF n = 0 THEN {<<>>}
    ELSE LET shorter == StringsUpTo(alphabet, n - 1)
         IN  shorter \cup {Append(s, c) : s \in shorter, c \in alphabet}

----------------------------------------------------------------------------
(* utils_module.clean_text                                                 *)

\* re.sub(r'\s+', ' ', text): every maximal run of whitespace becomes one space
RECURSIVE CollapseWhitespace(_)
CollapseWhitespace(s) ==
    IF s = <<>> THEN <<>>
    ELSE IF IsSpace(Head(s))
         THEN <<" ">> \o CollapseWhitespace(LStrip(s))
         ELSE <<Head(s)>> \o CollapseWhitespace(Tail(s))

\* the characters the class [^\w\s.,;:()\-/] does not match
IsKeptChar(c) ==
    IsWord(c) \/ IsSpace(c) \/ c \in {".", ",", ";", ":", "(", ")", "-", "/"}

\* re.sub(r'[^\w\s.,;:()\-/]', '', text)
RemoveSpecial(s) == SelectSeq(s, IsKeptChar)

clean_text(text) ==
    IF text = None \/ text = <<>> THEN <<>>
    ELSE Strip(RemoveSpecial(CollapseWhitespace(text)))

\* the inputs of clean_text: every string over CleanAlphabet up to MaxCleanLen
MaxCleanLen == 5

CleanAlphabet == {"a", " ", "\t", "!", "."}

CleanInputs == StringsUpTo(CleanAlphabet, MaxCleanLen) \cup {None}

InitCleanText ==
    /\ pc = "clean_text"
    /\ arg \in CleanInputs
    /\ ret = None
    /\ ret2 = None
    /\ InitEnvFixed

\* result = clean_text(text)
CallCleanText ==
    /\ pc = "clean_text"
    /\ ret' = clean_text(arg)
    /\ pc' = "clean_text_again"
    /\ UNCHANGED <<arg, ret2, env, web>>

\* clean_text(result): the function applied to its own result
CallCleanTextAgain ==
    /\ pc = "clean_text_again"
    /\ ret2' = clean_text(ret)
    /\ pc' = "done"
    /\ UNCHANGED <<arg, ret, env, web>>

NextCleanText == CallCleanText \/ CallCleanTextAgain

SpecCleanText == InitCleanText /\ [][NextCleanText]_vars

\* C1: clean_text is idempotent: cleaning an already cleaned text changes
\* nothing, clean_text(clean_text(x)) = clean_text(x) for every string x.
C1_CleanTextIdempotent ==
    (pc = "done") => (ret2 = ret)

----------------------------------------------------------------------------
(* utils_module.validate_case_number                                       *)

\* c repeated n times
Rep(c, n) == [i \in 1..n |-> c]

\* the Python value True/False of `not x` for a str or None
IsFalsy(x) == x = None \/ x = <<>>

MsgCaseNumberRequired == <<"Case number is required">>

MsgCaseNumberFormat == <<"Case number can only contain letters, numbers, / and -">>

MsgCaseNumberLength == <<"Case number must be between 1 and 20 characters">>

\* the longest case number the length check accepts
MaxCaseNumberLen == 20

\* the class [A-Za-z0-9/-]
IsCaseNumberChar(c) == c \in UpperLetters \cup LowerLetters \cup Digits \cup {"/", "-"}

\* re.match(r'^[A-Za-z0-9/-]+$', s); s is stripped, so it ends with no newline
\* for the $ to skip
MatchesCaseNumber(s) == Len(s) >= 1 /\ \A i \in 1..Len(s) : IsCaseNumberChar(s[i])

TooLongMutant(n) == n < 1 \/ n >= MaxCaseNumberLen

\* len(case_number) < 1 or len(case_number) > 20
LengthOutOfRange(n) == n < 1 \/ n > MaxCaseNumberLen

\* returns (is_valid, error_message)
validate_case_number(case_number) ==
    IF IsFalsy(case_number) THEN <<FALSE, MsgCaseNumberRequired>>
    ELSE LET stripped == Strip(case_number)
         IN  IF ~MatchesCaseNumber(stripped) THEN <<FALSE, MsgCaseNumberFormat>>
             ELSE IF LengthOutOfRange(Len(stripped)) THEN <<FALSE, MsgCaseNumberLength>>
             ELSE <<TRUE, None>>

\* the inputs of validate_case_number: short strings over CaseNumberAlphabet
\* and runs of digits around the length limit, with and without surrounding
\* whitespace
MaxCaseNumberCore == 2

CaseNumberAlphabet == {"A", "7", "/", "-", "!", " "}

CaseNumberCores ==
    StringsUpTo(CaseNumberAlphabet, MaxCaseNumberCore)
        \cup {Rep("7", n) : n \in (MaxCaseNumberLen - 1)..(MaxCaseNumberLen + 2)}
        \cup {Rep("z", n) \o <<"!">> : n \in (MaxCaseNumberLen - 1)..(MaxCaseNumberLen + 1)}

CaseNumberInputs ==
    {None} \cup {l \o c \o t : l \in {<<>>, <<" ">>}, c \in CaseNumberCores,
                               t \in {<<>>, <<" ">>, <<"\n">>}}

InitValidateCaseNumber ==
    /\ pc = "validate_case_number"
    /\ arg \in CaseNumberInputs
    /\ ret = None
    /\ ret2 = None
    /\ InitEnvFixed

\* is_valid, error = validate_case_number(case_number)
CallValidateCaseNumber ==
    /\ pc = "validate_case_number"
    /\ ret' = validate_case_number(arg)
    /\ pc' = "done"
    /\ UNCHANGED <<arg, ret2, env, web>>

NextValidateCaseNumber == CallValidateCaseNumber

SpecValidateCaseNumber == InitValidateCaseNumber /\ [][NextValidateCaseNumber]_vars

\* the kind of ValidationError a message of the validators stands for
KindOf(message) ==
    CASE message[1] = "Case number is required" -> "empty"
      [] message[1] = "Case number can only contain letters, numbers, / and -" -> "format"
      [] message[1] = "Case number must be between 1 and 20 characters" -> "length"
      [] message[1] = "Invalid year format" -> "not_integer"
      [] message[1] = "Year must be between 1950 and " -> "range"
      [] OTHER -> "other"

\* the trimmed form of the argument of the call
Trimmed == Strip(arg)

HasForeignChar(s) == \E i \in 1..Len(s) : ~IsCaseNumberChar(s[i])

\* C5 as stated: success exactly for a trimmed form of 1 to 20 allowed
\* characters, yielding the trimmed value; otherwise the matching kind: empty
\* for empty or absent input, format for a character outside the allowed
\* set, length for a trimmed length outside [1, 20].
C5_AsStated ==
    (pc = "done") =>
        IF IsFalsy(arg) THEN ~ret[1] /\ KindOf(ret[2]) = "empty"
        ELSE IF HasForeignChar(Trimmed) THEN ~ret[1] /\ KindOf(ret[2]) = "format"
        ELSE IF Len(Trimmed) < 1 \/ Len(Trimmed) > 20
             THEN ~ret[1] /\ KindOf(ret[2]) = "length"
        ELSE ret = <<TRUE, Trimmed>>

\* C5 amended: success exactly for a trimmed form of 1 to 20 allowed
\* characters, returning (True, None) and not the trimmed value; otherwise
\* empty for empty or absent input, format when the trimmed form is empty
\* (whitespace only) or has a character outside the allowed set, length when
\* the trimmed form is made of allowed characters and is longer than 20.
C5_ValidateCaseNumber ==
    (pc = "done") =>
        /\ ret[1] <=> (/\ ~IsFalsy(arg)
                       /\ Len(Trimmed) \in 1..20
                       /\ ~HasForeignChar(Trimmed))
        /\ ret[1] => ret[2] = None
        /\ ~ret[1] =>
              KindOf(ret[2]) =
                  IF IsFalsy(arg) THEN "empty"
                  ELSE IF Trimmed = <<>> \/ HasForeignChar(Trimmed) THEN "format"
                  ELSE "length"

\* a case number of exactly 20 allowed characters, with whitespace around
\* it, was accepted
C5_Witness ==
    /\ pc = "done"
    /\ ret[1]
    /\ Len(Trimmed) = 20
    /\ Len(arg) > 20

----------------------------------------------------------------------------
(* utils_module.validate_year                                              *)

\* a Python int as a value that compares with a str and with None
PyInt(n) == <<"int", n>>

DigitValue(c) ==
    CASE c = "0" -> 0 [] c = "1" -> 1 [] c = "2" -> 2 [] c = "3" -> 3 [] c = "4" -> 4
      [] c = "5" -> 5 [] c = "6" -> 6 [] c = "7" -> 7 [] c = "8" -> 8 [] c = "9" -> 9

IsDigit(c) == c \in Digits

\* the value of a string of decimal digits
RECURSIVE DecimalValue(_)
DecimalValue(ds) ==
    IF ds = <<>> THEN 0
    ELSE 10 * DecimalValue(SubSeq(ds, 1, Len(ds) - 1)) + DigitValue(ds[Len(ds)])

\* the sign of an int literal and what follows it
HasSign(s) == s # <<>> /\ Head(s) \in {"+", "-"}

Unsigned(s) == IF HasSign(s) THEN Tail(s) ELSE s

\* the digits of an int literal: decimal digits, single underscores between them
IsIntBody(b) ==
    /\ b # <<>>
    /\ \A i \in 1..Len(b) : IsDigit(b[i]) \/ b[i] = "_"
    /\ IsDigit(b[1]) /\ IsDigit(b[Len(b)])
    /\ \A i \in 1..(Len(b) - 1) : ~(b[i] = "_" /\ b[i + 1] = "_")

\* int(value) raises ValueError (a str that is no literal) or TypeError (None)
IntRaises(value) == value = None \/ ~IsIntBody(Unsigned(Strip(value)))

\* int(value) for a str that is an int literal
IntOf(value) ==
    LET t == Strip(value)
        magnitude == DecimalValue(SelectSeq(Unsigned(t), IsDigit))
    IN  IF HasSign(t) /\ Head(t) = "-" THEN 0 - magnitude ELSE magnitude

MsgYearFormat == <<"Invalid year format">>

\* f"Year must be between 1950 and {current_year + 1}"
MsgYearRange(this_year) == <<"Year must be between 1950 and ", this_year + 1>>

\* the earliest year accepted
MinYear == 1950

YearOutOfRangeMutant(year_int, this_year) ==
    year_int < MinYear \/ year_int >= this_year + 1

\* year_int < 1950 or year_int > current_year + 1
YearOutOfRange(year_int, this_year) ==
    year_int < MinYear \/ year_int > this_year + 1

\* returns (is_valid, error_message); this_year is datetime.now().year
validate_year(year, this_year) ==
    IF IntRaises(year) THEN <<FALSE, MsgYearFormat>>
    ELSE IF YearOutOfRange(IntOf(year), this_year)
         THEN <<FALSE, MsgYearRange(this_year)>>
         ELSE <<TRUE, None>>

\* the inputs of validate_year: literals around both limits, with signs,
\* whitespace, underscores and leading zeros, and strings that are no literal
YearBodies ==
    {<<"1", "9", "4", "9">>, <<"1", "9", "5", "0">>, <<"1", "9", "5", "1">>,
     <<"2", "0", "2", "6">>, <<"2", "0", "2", "7">>, <<"2", "0", "2", "8">>,
     <<"2", "0", "2", "9">>, <<"0">>, <<"0", "2", "0", "2", "7">>,
     <<"2", "_", "0", "2", "7">>, <<"2", "0", "_", "_", "2", "7">>,
     <<"1", "9", "x", "0">>, <<"1", "9", "5", "0", ".", "0">>, <<"2", "0", " ", "2", "7">>,
     <<>>}

YearInputs ==
    {None} \cup {l \o sign \o b \o t : l \in {<<>>, <<" ">>}, sign \in {<<>>, <<"+">>, <<"-">>},
                                      b \in YearBodies, t \in {<<>>, <<"\n">>}}

InitValidateYear ==
    /\ pc = "validate_year"
    /\ arg \in YearInputs
    /\ ret = None
    /\ ret2 = None
    /\ current_year \in ClockYears
    /\ strftime_pads = TRUE
    /\ InitWebIdle

\* is_valid, error = validate_year(year)
CallValidateYear ==
    /\ pc = "validate_year"
    /\ ret' = validate_year(arg, current_year)
    /\ pc' = "done"
    /\ UNCHANGED <<arg, ret2, env, web>>

NextValidateYear == CallValidateYear

SpecValidateYear == InitValidateYear /\ [][NextValidateYear]_vars

\* C6 as stated: success exactly when the value parses as an integer y with
\* 1950 <= y <= current year + 1, yielding the integer y; not_integer when it
\* does not parse, range when y is outside the limits.
C6_AsStated ==
    (pc = "done") =>
        IF IntRaises(arg) THEN ~ret[1] /\ KindOf(ret[2]) = "not_integer"
        ELSE IF IntOf(arg) < 1950 \/ IntOf(arg) > current_year + 1
             THEN ~ret[1] /\ KindOf(ret[2]) = "range"
        ELSE ret = <<TRUE, PyInt(IntOf(arg))>>

\* C6 amended: success exactly when the value parses as an integer y with
\* 1950 <= y <= current year + 1 (both inclusive), returning (True, None) and
\* not the integer; not_integer when it does not parse, range when y < 1950
\* or y > current year + 1.
C6_ValidateYear ==
    (pc = "done") =>
        /\ ret[1] <=> (/\ ~IntRaises(arg)
                       /\ 1950 <= IntOf(arg)
                       /\ IntOf(arg) <= current_year + 1)
        /\ ret[1] => ret[2] = None
        /\ ~ret[1] =>
              KindOf(ret[2]) = IF IntRaises(arg) THEN "not_integer" ELSE "range"

\* the year after the current one, the upper limit itself, was accepted
C6_Witness ==
    /\ pc = "done"
    /\ ret[1]
    /\ ~IntRaises(arg)
    /\ IntOf(arg) = current_year + 1

----------------------------------------------------------------------------
(* utils_module.format_date: datetime.strptime and datetime.strftime       *)

\* s.split(c): the fields between the occurrences of the character c
RECURSIVE SplitOn(_, _)
SplitOn(s, c) ==
    IF \A i \in 1..Len(s) : s[i] # c THEN <<s>>
    ELSE LET k == CHOOSE i \in 1..Len(s) : s[i] = c /\ \A j \in 1..(i - 1) : s[j] # c
         IN  <<SubSeq(s, 1, k - 1)>> \o SplitOn(SubSeq(s, k + 1, Len(s)), c)

\* the maximal runs of non-whitespace of s, in order
RECURSIVE Words(_)
Words(s) ==
    LET t == LStrip(s)
    IN  IF t = <<>> THEN <<>>
        ELSE LET n == CHOOSE i \in 1..Len(t) :
                          /\ \A j \in 1..i : ~IsSpace(t[j])
                          /\ i = Len(t) \/ IsSpace(t[i + 1])
             IN  <<SubSeq(t, 1, n)>> \o Words(SubSeq(t, n + 1, Len(t)))

\* the directive %d: 3[0-1] | [1-2]\d | 0[1-9] | [1-9] | a space and [1-9]
IsDayField(f) ==
    \/ Len(f) = 2 /\ f[1] = "3" /\ f[2] \in {"0", "1"}
    \/ Len(f) = 2 /\ f[1] \in {"1", "2"} /\ IsDigit(f[2])
    \/ Len(f) = 2 /\ f[1] \in {"0", " "} /\ IsDigit(f[2]) /\ f[2] # "0"
    \/ Len(f) = 1 /\ IsDigit(f[1]) /\ f[1] # "0"

\* the directive %m: 1[0-2] | 0[1-9] | [1-9]
IsMonthField(f) ==
    \/ Len(f) = 2 /\ f[1] = "1" /\ f[2] \in {"0", "1", "2"}
    \/ Len(f) = 2 /\ f[1] = "0" /\ IsDigit(f[2]) /\ f[2] # "0"
    \/ Len(f) = 1 /\ IsDigit(f[1]) /\ f[1] # "0"

\* the directive %Y: \d\d\d\d
IsYearField(f) == Len(f) = 4 /\ \A i \in 1..4 : IsDigit(f[i])

\* the value of a %d, %m or %Y field
FieldValue(f) == DecimalValue(SelectSeq(f, IsDigit))

\* calendar.month_name, lower-cased
MonthNames ==
    << <<"j", "a", "n", "u", "a", "r", "y">>, <<"f", "e", "b", "r", "u", "a", "r", "y">>,
       <<"m", "a", "r", "c", "h">>, <<"a", "p", "r", "i", "l">>, <<"m", "a", "y">>,
       <<"j", "u", "n", "e">>, <<"j", "u", "l", "y">>, <<"a", "u", "g", "u", "s", "t">>,
       <<"s", "e", "p", "t", "e", "m", "b", "e", "r">>, <<"o", "c", "t", "o", "b", "e", "r">>,
       <<"n", "o", "v", "e", "m", "b", "e", "r">>, <<"d", "e", "c", "e", "m", "b", "e", "r">> >>

\* calendar.month_abbr, lower-cased
MonthAbbrs == [i \in 1..12 |-> SubSeq(MonthNames[i], 1, 3)]

\* the directives %B and %b match a name in any letter case
IsNameIn(f, names) == \E i \in 1..12 : Lower(f) = names[i]

NameIndex(f, names) == CHOOSE i \in 1..12 : Lower(f) = names[i]

IsLeap(y) == (y % 4 = 0 /\ y % 100 # 0) \/ y % 400 = 0

DaysInMonth(y, m) ==
    IF m = 2 THEN (IF IsLeap(y) THEN 29 ELSE 28)
    ELSE IF m \in {4, 6, 9, 11} THEN 30 ELSE 31

\* no date: strptime raised ValueError
NoDate == <<>>

\* datetime(y, m, d), which raises ValueError for a day the month does not
\* have and for the year 0
MakeDate(y, m, d) ==
    IF y >= 1 /\ m \in 1..12 /\ d >= 1 /\ d <= DaysInMonth(y, m) THEN <<y, m, d>> ELSE NoDate

\* the formats of format_date, in the order of the list
Formats == <<"%d/%m/%Y", "%d-%m-%Y", "%d.%m.%Y", "%Y-%m-%d", "%d %B %Y", "%d %b %Y">>

\* a format of three numeric fields around one separator character: the
\* fields hold no separator, so the match is the split at the separator
NumericDate(s, sep, yearFirst) ==
    LET f == SplitOn(s, sep)
    IN  IF Len(f) # 3 THEN NoDate
        ELSE IF yearFirst
             THEN (IF IsYearField(f[1]) /\ IsMonthField(f[2]) /\ IsDayField(f[3])
                   THEN MakeDate(FieldValue(f[1]), FieldValue(f[2]), FieldValue(f[3]))
                   ELSE NoDate)
             ELSE (IF IsDayField(f[1]) /\ IsMonthField(f[2]) /\ IsYearField(f[3])
                   THEN MakeDate(FieldValue(f[3]), FieldValue(f[2]), FieldValue(f[1]))
                   ELSE NoDate)

\* a format "%d <name> %Y": a blank of the format matches \s+
NamedDate(s, names) ==
    LET w == Words(s)
    IN  IF Len(w) = 3 /\ IsDayField(w[1]) /\ IsNameIn(w[2], names) /\ IsYearField(w[3])
        THEN MakeDate(FieldValue(w[3]), NameIndex(w[2], names), FieldValue(w[1]))
        ELSE NoDate

\* datetime.strptime(s, fmt): the date, or NoDate for ValueError
strptime(s, fmt) ==
    CASE fmt = "%d/%m/%Y" -> NumericDate(s, "/", FALSE)
      [] fmt = "%d-%m-%Y" -> NumericDate(s, "-", FALSE)
      [] fmt = "%d.%m.%Y" -> NumericDate(s, ".", FALSE)
      [] fmt = "%Y-%m-%d" -> NumericDate(s, "-", TRUE)
      [] fmt = "%d %B %Y" -> NamedDate(s, MonthNames)
      [] fmt = "%d %b %Y" -> NamedDate(s, MonthAbbrs)

\* the decimal digits of n >= 0
RECURSIVE DecimalDigits(_)
DecimalDigits(n) ==
    LET last == <<CHOOSE c \in Digits : DigitValue(c) = n % 10>>
    IN  IF n < 10 THEN last ELSE DecimalDigits(n \div 10) \o last

ZeroPad(ds, width) == IF Len(ds) >= width THEN ds ELSE Rep("0", width - Len(ds)) \o ds

\* dt.strftime('%Y-%m-%d'): %m and %d are two digits; %Y is what the C
\* library's strftime gives, which for a year below 1000 is four digits on
\* some platforms and the bare number on others (glibc)
strftime(dt, pads) ==
    (IF pads THEN ZeroPad(DecimalDigits(dt[1]), 4) ELSE DecimalDigits(dt[1]))
        \o <<"-">> \o ZeroPad(DecimalDigits(dt[2]), 2)
        \o <<"-">> \o ZeroPad(DecimalDigits(dt[3]), 2)

\* the loop over the formats, from the i-th on
RECURSIVE TryFormats(_, _, _)
TryFormats(date_str, i, pads) ==
    IF i > Len(Formats) THEN date_str
    ELSE LET dt == strptime(Strip(date_str), Formats[i])
         IN  IF dt # NoDate THEN strftime(dt, pads) ELSE TryFormats(date_str, i + 1, pads)

format_date(date_str, pads) ==
    IF IsFalsy(date_str) THEN None ELSE TryFormats(date_str, 1, pads)

\* the inputs of format_date: three fields around two separators, with and
\* without surrounding whitespace; fields and separators are chosen so that
\* every format parses some input and most inputs parse under none
DateFields ==
    {<<"5">>, <<"2", "9">>, <<"0", "2">>,
     <<"2", "0", "2", "4">>, <<"2", "0", "2", "3">>, <<"0", "0", "0", "5">>,
     <<"M", "a", "r", "c", "h">>, <<"f", "e", "b">>, <<"M", "A", "Y">>, <<>>}

DateSeps == {<<"/">>, <<"-">>, <<".">>, <<" ">>, <<"-", " ">>}

DateInputs ==
    {None, <<>>, <<" ">>, <<"g", "a", "r", "b", "a", "g", "e">>}
        \cup {w \o f1 \o s1 \o f2 \o s2 \o f3 \o w :
                    w \in {<<>>, <<" ">>},
                    f1 \in DateFields, f2 \in DateFields, f3 \in DateFields,
                    s1 \in DateSeps, s2 \in DateSeps}

InitFormatDate ==
    /\ pc = "format_date"
    /\ arg \in DateInputs
    /\ ret = None
    /\ ret2 = None
    /\ current_year = 2026
    /\ strftime_pads \in BOOLEAN
    /\ InitWebIdle

\* formatted = format_date(date_str)
CallFormatDate ==
    /\ pc = "format_date"
    /\ ret' = format_date(arg, strftime_pads)
    /\ pc' = "format_date_again"
    /\ UNCHANGED <<arg, ret2, env, web>>

\* format_date(formatted): the function applied to its own result
CallFormatDateAgain ==
    /\ pc = "format_date_again"
    /\ ret2' = format_date(ret, strftime_pads)
    /\ pc' = "done"
    /\ UNCHANGED <<arg, ret, env, web>>

NextFormatDate == CallFormatDate \/ CallFormatDateAgain

SpecFormatDate == InitFormatDate /\ [][NextFormatDate]_vars

\* the index of the first format under which the trimmed argument parses, 0
\* when there is none
FirstParsing ==
    IF arg = None \/ \A i \in 1..6 : strptime(Strip(arg), Formats[i]) = NoDate THEN 0
    ELSE CHOOSE i \in 1..6 :
             /\ strptime(Strip(arg), Formats[i]) # NoDate
             /\ \A j \in 1..(i - 1) : strptime(Strip(arg), Formats[j]) = NoDate

\* a date as ISO 8601 YYYY-MM-DD
Iso(dt) ==
    ZeroPad(DecimalDigits(dt[1]), 4) \o <<"-">> \o ZeroPad(DecimalDigits(dt[2]), 2)
        \o <<"-">> \o ZeroPad(DecimalDigits(dt[3]), 2)

\* C7: for the first of the six patterns, in their order, under which the
\* trimmed input parses, format_date returns that date as ISO YYYY-MM-DD, and
\* format_date of that result is the result again.
C7_FormatDateIso ==
    (pc = "done" /\ FirstParsing # 0) =>
        /\ ret = Iso(strptime(Strip(arg), Formats[FirstParsing]))
        /\ ret2 = ret

\* C8: an input string that parses under none of the six patterns, the empty
\* string included, comes back unchanged.
C8_FormatDatePassthrough ==
    (pc # "format_date" /\ arg # None /\ FirstParsing = 0) => ret = arg

----------------------------------------------------------------------------
(* utils_module.parse_case_parties                                         *)

\* separators = ['vs', 'v/s', 'versus', 'v.']
separators ==
    << <<"v", "s">>, <<"v", "/", "s">>, <<"v", "e", "r", "s", "u", "s">>, <<"v", ".">> >>

\* the separator, compiled as a regular expression with re.IGNORECASE,
\* matches text at position i: every character of these separators stands
\* for itself in either letter case, except '.', which matches any character
\* but a newline
PatternMatchesAt(sep, text, i) ==
    /\ i >= 1
    /\ i + Len(sep) - 1 <= Len(text)
    /\ \A k \in 1..Len(sep) :
          IF sep[k] = "." THEN text[i + k - 1] # "\n"
          ELSE LowerChar(text[i + k - 1]) = sep[k]

\* re.split(sep, text, maxsplit=1, flags=re.IGNORECASE): the text around the
\* leftmost match, or the whole text when there is no match
ReSplitOnce(sep, text) ==
    IF \A i \in 1..Len(text) : ~PatternMatchesAt(sep, text, i) THEN <<text>>
    ELSE LET i == CHOOSE k \in 1..Len(text) :
                      /\ PatternMatchesAt(sep, text, k)
                      /\ \A j \in 1..(k - 1) : ~PatternMatchesAt(sep, text, j)
         IN  <<SubSeq(text, 1, i - 1), SubSeq(text, i + Len(sep), Len(text))>>

\* the loop over the separators, from the n-th on
RECURSIVE TrySeparators(_, _)
TrySeparators(text, n) ==
    IF n > Len(separators) THEN <<Strip(text), None>>
    ELSE IF Contains(Lower(text), separators[n])
              /\ Len(ReSplitOnce(separators[n], text)) = 2
         THEN LET parts == ReSplitOnce(separators[n], text)
              IN  <<Strip(parts[1]), Strip(parts[2])>>
         ELSE TrySeparators(text, n + 1)

\* returns (petitioner, respondent)
parse_case_parties(text) ==
    IF IsFalsy(text) THEN <<None, None>> ELSE TrySeparators(text, 1)

\* the inputs of parse_case_parties: every string over PartiesAlphabet up to
\* MaxPartiesLen, and some case titles
MaxPartiesLen == 4

PartiesAlphabet == {"a", "v", "V", "s", ".", "/", " "}

PartiesTitles ==
    {<<"J", "o", "e", " ", "v", "s", " ", "A", "n", "n">>,
     <<"J", "o", "e", " ", "V", "E", "R", "S", "U", "S", " ", "A", "n", "n">>,
     <<"D", "a", "v", "e", " ", "v", ".", " ", "B", "o", "b">>,
     <<"J", "o", "e", " ", "v", "/", "s", " ", "v", "s", ".">>,
     <<"S", "o", "l", "o">>}

PartiesInputs == StringsUpTo(PartiesAlphabet, MaxPartiesLen) \cup PartiesTitles \cup {None}

InitParseCaseParties ==
    /\ pc = "parse_case_parties"
    /\ arg \in PartiesInputs
    /\ ret = None
    /\ ret2 = None
    /\ InitEnvFixed

\* petitioner, respondent = parse_case_parties(text)
CallParseCaseParties ==
    /\ pc = "parse_case_parties"
    /\ ret' = parse_case_parties(arg)
    /\ pc' = "done"
    /\ UNCHANGED <<arg, ret2, env, web>>

NextParseCaseParties == CallParseCaseParties

SpecParseCaseParties == InitParseCaseParties /\ [][NextParseCaseParties]_vars

\* the first separator of the priority list that occurs in the lower-cased
\* argument, 0 when none does
FirstSeparator ==
    IF \A n \in 1..4 : ~Contains(Lower(arg), separators[n]) THEN 0
    ELSE CHOOSE n \in 1..4 :
             /\ Contains(Lower(arg), separators[n])
             /\ \A m \in 1..(n - 1) : ~Contains(Lower(arg), separators[m])

\* the position of the first occurrence of a literal in the lower-cased argument
FirstOccurrence(lit) ==
    CHOOSE i \in 1..Len(arg) :
        /\ OccursAt(lit, Lower(arg), i)
        /\ \A j \in 1..(i - 1) : ~OccursAt(lit, Lower(arg), j)

\* C9: for non-empty text the result is the text split at the first
\* occurrence of the literal separator that comes first in the priority list
\* vs, v/s, versus, v. among those occurring case-insensitively, both parts
\* trimmed; (trimmed text, None) when no separator occurs; (None, None) for
\* empty or absent text.
C9_ParseCaseParties ==
    (pc = "done") =>
        IF IsFalsy(arg) THEN ret = <<None, None>>
        ELSE IF FirstSeparator = 0 THEN ret = <<Strip(arg), None>>
        ELSE LET lit == separators[FirstSeparator]
                 i == FirstOccurrence(lit)
             IN  ret = <<Strip(SubSeq(arg, 1, i - 1)),
                         Strip(SubSeq(arg, i + Len(lit), Len(arg)))>>

----------------------------------------------------------------------------
(* utils_module.sanitize_filename                                          *)

\* the longest file name the code lets through untruncated
MaxFilenameLen == 255

\* the position of the last occurrence of the character c in s, 0 when none
LastIndexOf(s, c) ==
    IF \A i \in 1..Len(s) : s[i] # c THEN 0
    ELSE CHOOSE i \in 1..Len(s) : s[i] = c /\ \A j \in (i + 1)..Len(s) : s[j] # c

\* os.path.basename (posixpath): what follows the last '/'
basename(path) == SubSeq(path, LastIndexOf(path, "/") + 1, Len(path))

\* the characters of the class [<>:"/\\|?*]
InvalidChars == {"<", ">", ":", "\"", "/", "\\", "|", "?", "*"}

\* re.sub(r'[<>:"/\\|?*]', '_', filename)
ReplaceInvalid(s) == [i \in 1..Len(s) |-> IF s[i] \in InvalidChars THEN "_" ELSE s[i]]

\* os.path.splitext (posixpath) of a name without '/': the extension starts
\* at the last dot, unless only dots come before it
splitext(p) ==
    LET dotIndex == LastIndexOf(p, ".")
    IN  IF dotIndex > 0 /\ \E i \in 1..(dotIndex - 1) : p[i] # "."
        THEN <<SubSeq(p, 1, dotIndex - 1), SubSeq(p, dotIndex, Len(p))>>
        ELSE <<p, <<>>>>

\* name[:255-len(ext)] + ext
Truncate(name, ext) == Slice(name, 0, MaxFilenameLen - Len(ext)) \o ext

sanitize_filename(filename) ==
    LET replaced == ReplaceInvalid(basename(filename))
    IN  IF Len(replaced) > MaxFilenameLen
        THEN Truncate(splitext(replaced)[1], splitext(replaced)[2])
        ELSE replaced

\* the inputs of sanitize_filename: a directory part, a base of one repeated
\* character, and an extension (or none), with lengths around the limit
FilenameDirs == {<<>>, <<"d", "/">>, <<".", ".", "/", "x", "\\">>, <<"a", ":", "/">>}

FilenameBases ==
    {Rep("a", n) : n \in {0, 1, 2} \cup ((MaxFilenameLen - 5)..(MaxFilenameLen + 2))}
        \cup {<<"?">> \o Rep("a", n) : n \in {1, MaxFilenameLen - 1, MaxFilenameLen}}
        \cup {<<".">> \o Rep("a", n) : n \in {1, MaxFilenameLen - 1, MaxFilenameLen}}

FilenameExts ==
    {<<>>} \cup {<<".">> \o Rep("b", n) :
                    n \in {0, 3} \cup ((MaxFilenameLen - 2)..(MaxFilenameLen + 1))}
           \cup {<<".", "t", "*", "r">>, <<".", "t", "a", "r", ".", "g", "z">>}

FilenameInputs == {d \o b \o e : d \in FilenameDirs, b \in FilenameBases, e \in FilenameExts}

InitSanitizeFilename ==
    /\ pc = "sanitize_filename"
    /\ arg \in FilenameInputs
    /\ ret = None
    /\ ret2 = None
    /\ InitEnvFixed

\* safe = sanitize_filename(filename)
CallSanitizeFilename ==
    /\ pc = "sanitize_filename"
    /\ ret' = sanitize_filename(arg)
    /\ pc' = "done"
    /\ UNCHANGED <<arg, ret2, env, web>>

NextSanitizeFilename == CallSanitizeFilename

SpecSanitizeFilename == InitSanitizeFilename /\ [][NextSanitizeFilename]_vars

\* the extension of the final path segment of the argument, after the
\* replacement of the invalid characters
OriginalExtension == splitext(ReplaceInvalid(basename(arg)))[2]

EndsWith(s, suffix) ==
    Len(suffix) <= Len(s) /\ SubSeq(s, Len(s) - Len(suffix) + 1, Len(s)) = suffix

\* C10: the result is at most 255 characters long, holds none of the
\* characters < > : " / \ | ? *, and when the name was truncated it still
\* ends with the original extension.
C10_SanitizeFilename ==
    (pc = "done") =>
        /\ Len(ret) <= 255
        /\ \A i \in 1..Len(ret) : ret[i] \notin InvalidChars
        /\ Len(ReplaceInvalid(basename(arg))) > 255 => EndsWith(ret, OriginalExtension)

----------------------------------------------------------------------------
(* utils_module.validate_case_type and utils_module.detect_captcha         *)

MsgCaseTypeRequired == <<"Case type is required">>

MsgCaseTypeFormat == <<"Invalid case type format">>

\* re.match(r'^[A-Z]{1,10}$', s) on a stripped s
MatchesCaseType(s) ==
    Len(s) >= 1 /\ Len(s) <= 10 /\ \A i \in 1..Len(s) : s[i] \in UpperLetters

\* returns (is_valid, error_message)
validate_case_type(case_type) ==
    IF IsFalsy(case_type) THEN <<FALSE, MsgCaseTypeRequired>>
    ELSE IF ~MatchesCaseType(Upper(Strip(case_type))) THEN <<FALSE, MsgCaseTypeFormat>>
    ELSE <<TRUE, None>>

captcha_indicators ==
    <<Chars("captcha"), Chars("recaptcha"), Chars("security check"),
      Chars("verify you are human"), Chars("g-recaptcha")>>

\* the search run on the markup as it is, not lower-cased
detect_captcha_cased(html_content) ==
    \E n \in 1..Len(captcha_indicators) : Contains(html_content, captcha_indicators[n])

detect_captcha(html_content) ==
    \E n \in 1..Len(captcha_indicators) :
        Contains(Lower(html_content), captcha_indicators[n])

----------------------------------------------------------------------------
(* scraper.CourtScraper: the extractors.                                   *)
(*                                                                         *)
(* What BeautifulSoup finds in a page: tables, a sequence of records       *)
(* [class, rows], a row being a sequence of cells [tag, text]; and links,  *)
(* the <a href> elements as records [text, href], both in document order.  *)

Cell(tag, text) == [tag |-> tag, text |-> text]

\* element.get_text(strip=True) of an element holding one piece of text
get_text_strip(element) == Strip(element.text)

\* the rows of all the tables, in document order
RECURSIVE AllRows(_)
AllRows(tables) ==
    IF tables = <<>> THEN <<>> ELSE Head(tables).rows \o AllRows(Tail(tables))

\* the chain with the status test moved to the front
FieldOfLabelStatusFirst(label) ==
    IF Contains(label, Chars("status")) THEN "case_status"
    ELSE IF Contains(label, Chars("petitioner")) \/ Contains(label, Chars("plaintiff"))
    THEN "petitioner"
    ELSE IF Contains(label, Chars("respondent")) \/ Contains(label, Chars("defendant"))
    THEN "respondent"
    ELSE IF Contains(label, Chars("filing")) /\ Contains(label, Chars("date"))
    THEN "filing_date"
    ELSE IF Contains(label, Chars("next"))
            /\ (Contains(label, Chars("hearing")) \/ Contains(label, Chars("date")))
    THEN "next_hearing"
    ELSE ""

\* the field the if/elif chain assigns for a label, "" when no branch is taken
FieldOfLabel(label) ==
    IF Contains(label, Chars("petitioner")) \/ Contains(label, Chars("plaintiff"))
    THEN "petitioner"
    ELSE IF Contains(label, Chars("respondent")) \/ Contains(label, Chars("defendant"))
    THEN "respondent"
    ELSE IF Contains(label, Chars("filing")) /\ Contains(label, Chars("date"))
    THEN "filing_date"
    ELSE IF Contains(label, Chars("next"))
            /\ (Contains(label, Chars("hearing")) \/ Contains(label, Chars("date")))
    THEN "next_hearing"
    ELSE IF Contains(label, Chars("status"))
    THEN "case_status"
    ELSE ""

\* the body of the loop over the rows: cells = row.find_all(['td', 'th'])
ParseRow(parsed, row) ==
    IF Len(row) >= 2
    THEN LET label == Lower(get_text_strip(row[1]))
             value == get_text_strip(row[2])
             field == FieldOfLabel(label)
         IN  IF field = "" THEN parsed ELSE [parsed EXCEPT ![field] = value]
    ELSE parsed

\* the loop run so that the first matching row keeps its field
RECURSIVE ParseRowsFirstWins(_, _)
ParseRowsFirstWins(parsed, rows) ==
    IF rows = <<>> THEN parsed
    ELSE ParseRow(ParseRowsFirstWins(parsed, Tail(rows)), Head(rows))

\* the loop over the rows
RECURSIVE ParseRows(_, _)
ParseRows(parsed, rows) ==
    IF rows = <<>> THEN parsed ELSE ParseRows(ParseRow(parsed, Head(rows)), Tail(rows))

\* the test on the text alone
IsJudgmentLinkTextOnly(link) ==
    \E word \in {Chars("judgment"), Chars("order"), Chars("download")} :
        Contains(Lower(link.text), word)

\* the two tests on a link: the words in its text, pdf or download in its href
IsJudgmentLink(link) ==
    /\ \E word \in {Chars("judgment"), Chars("order"), Chars("download")} :
          Contains(Lower(link.text), word)
    /\ \/ Contains(Lower(link.href), Chars("pdf"))
       \/ Contains(Lower(link.href), Chars("download"))

\* the loop over the links
JudgmentsOf(links) ==
    LET kept == SelectSeq(links, IsJudgmentLink)
    IN  [i \in 1..Len(kept) |-> [text |-> Strip(kept[i].text), url |-> kept[i].href]]

\* a record of unset fields
EmptyParsedNone ==
    [petitioner |-> None, respondent |-> None, filing_date |-> None,
     next_hearing |-> None, case_status |-> None, judgments |-> <<>>]

\* the record _parse_case_details starts from
EmptyParsed ==
    [petitioner |-> <<>>, respondent |-> <<>>, filing_date |-> <<>>,
     next_hearing |-> <<>>, case_status |-> <<>>, judgments |-> <<>>]

_parse_case_details(soup) ==
    [ParseRows(EmptyParsed, AllRows(soup.tables)) EXCEPT !.judgments = JudgmentsOf(soup.links)]

IsTd(cell) == cell.tag = "td"

\* the entries of one table: rows = table.find_all('tr')[1:], then for each
\* row cells = row.find_all('td') and an entry when len(cells) >= 4
RECURSIVE EntriesOfRows(_)
EntriesOfRows(rows) ==
    IF rows = <<>> THEN <<>>
    ELSE LET cells == SelectSeq(Head(rows), IsTd)
         IN  (IF Len(cells) >= 4
              THEN << [case_number |-> get_text_strip(cells[1]),
                       parties |-> get_text_strip(cells[2]),
                       court_room |-> get_text_strip(cells[3]),
                       time |-> get_text_strip(cells[4])] >>
              ELSE <<>>) \o EntriesOfRows(Tail(rows))

IsCauselistTable(table) == table.class = "causelist-table"

\* rows, the header not skipped
KeepFirst(rows) == rows

\* rows[1:]
SkipFirst(rows) == IF rows = <<>> THEN <<>> ELSE Tail(rows)

\* the loop over the tables
RECURSIVE EntriesOfTables(_)
EntriesOfTables(tables) ==
    IF tables = <<>> THEN <<>>
    ELSE EntriesOfRows(SkipFirst(Head(tables).rows)) \o EntriesOfTables(Tail(tables))

\* tables = soup.find_all('table', {'class': 'causelist-table'}); the entries
\* are returned in the order they were appended
_parse_causelist(soup) == EntriesOfTables(SelectSeq(soup.tables, IsCauselistTable))

----------------------------------------------------------------------------
(* Pages: driver.page_source, and what BeautifulSoup finds in it.          *)

RECURSIVE Flatten(_)
Flatten(seqs) == IF seqs = <<>> THEN <<>> ELSE Head(seqs) \o Flatten(Tail(seqs))

MarkupOfCell(cell) ==
    Chars("<") \o Chars(cell.tag) \o Chars(">") \o cell.text
        \o Chars("</") \o Chars(cell.tag) \o Chars(">")

MarkupOfRow(row) ==
    Chars("<tr>") \o Flatten([i \in 1..Len(row) |-> MarkupOfCell(row[i])]) \o Chars("</tr>")

MarkupOfTable(table) ==
    Chars("<table class=\"") \o Chars(table.class) \o Chars("\">")
        \o Flatten([i \in 1..Len(table.rows) |-> MarkupOfRow(table.rows[i])])
        \o Chars("</table>")

MarkupOfLink(link) ==
    Chars("<a href=\"") \o link.href \o Chars("\">") \o link.text \o Chars("</a>")

\* a page: a notice in a <div>, then the tables, then the links; html is
\* driver.page_source, and tables and links are what BeautifulSoup(html,
\* 'html.parser') finds in it
Page(notice, tables, links) ==
    [html |-> Chars("<div>") \o notice \o Chars("</div>")
                \o Flatten([i \in 1..Len(tables) |-> MarkupOfTable(tables[i])])
                \o Flatten([i \in 1..Len(links) |-> MarkupOfLink(links[i])]),
     tables |-> tables,
     links |-> links]

----------------------------------------------------------------------------
(* The cause list: app.fetch_causelist and CourtScraper.fetch_causelist    *)

\* self.base_urls
base_urls == {"high_court", "district_court"}

\* the times shown in a cause list
CauselistTimes == {Chars("11:00 AM"), Chars("10:00 AM")}

HeaderRow ==
    <<Cell("th", Chars("Case No")), Cell("th", Chars("Parties")),
      Cell("th", Chars("Court")), Cell("th", Chars("Time"))>>

DataRow(time) ==
    <<Cell("td", Chars("WP/1")), Cell("td", Chars("A vs B")),
      Cell("td", Chars(" 5 ")), Cell("td", time)>>

ShortRow == <<Cell("td", Chars("WP/2")), Cell("td", Chars("C vs D")), Cell("td", Chars("6"))>>

CauselistRows == {HeaderRow, ShortRow} \cup {DataRow(t) : t \in CauselistTimes}

\* the most rows of a table and the most tables of a page
MaxRows == 2

MaxTables == 2

\* a table of another class, whose rows the cause list must not show
OtherTable ==
    [class |-> "case-details", rows |-> <<HeaderRow, DataRow(Chars("09:00 AM"))>>]

CauselistTables ==
    {[class |-> "causelist-table", rows |-> r] : r \in StringsUpTo(CauselistRows, MaxRows)}
        \cup {OtherTable}

\* the tables that may follow the first table of a page
FollowingTables ==
    {[class |-> "causelist-table", rows |-> <<HeaderRow, DataRow(t)>>] : t \in CauselistTimes}
        \cup {OtherTable}

\* pages of no table, or of any table followed by up to MaxTables - 1 more
CauselistPages ==
    {Page(<<>>, ts, <<>>) :
        ts \in {<<>>} \cup {<<first>> \o rest :
                               first \in CauselistTables,
                               rest \in StringsUpTo(FollowingTables, MaxTables - 1)}}

\* the JSON bodies of the requests: court_type and date, after the defaults
\* of data.get
CauselistRequests ==
    {[court_type |-> ct, court_name |-> "Delhi", date |-> Chars("2026-03-15")] :
        ct \in base_urls \cup {"supreme_court"}}

InitCauselist ==
    /\ pc = "idle"
    /\ arg = NoRequest
    /\ ret = NoResponse
    /\ ret2 = None
    /\ InitEnvFixed

\* POST /api/fetch-causelist: the handler reads the request
ReceiveFetchCauselist ==
    /\ pc = "idle"
    /\ arg' \in CauselistRequests
    /\ ret' = NoResponse
    /\ driver' = "none"
    /\ page' = BlankPage
    /\ result' = NoResult
    /\ pc' = "fetch_causelist"
    /\ UNCHANGED <<ret2, env, queries, judgments, downloads>>

\* scraper = CourtScraper(): setup_driver starts the browser
CauselistCreateScraper ==
    /\ pc = "fetch_causelist"
    /\ driver' = "started"
    /\ pc' = "causelist_scraper"
    /\ UNCHANGED <<arg, ret, ret2, env, page, result, queries, judgments, downloads>>

\* webdriver.Chrome raises: the handler's except answers 500
CauselistCreateScraperFails ==
    /\ pc = "fetch_causelist"
    /\ ret' = [code |-> 500, body |-> [status |-> "error", cases |-> <<>>]]
    /\ pc' = "idle"
    /\ UNCHANGED <<arg, ret2, env, web>>

\* scraper.fetch_causelist, every step succeeding: the page is loaded and parsed
ScraperFetchCauselist ==
    /\ pc = "causelist_scraper"
    /\ arg.court_type \in base_urls
    /\ \E served \in CauselistPages :
          /\ page' = served
          /\ result' = [status |-> "success", date |-> arg.date, court |-> arg.court_name,
                        cases |-> _parse_causelist(served)]
    /\ driver' = "loaded"
    /\ pc' = "causelist_fetched"
    /\ UNCHANGED <<arg, ret, ret2, env, queries, judgments, downloads>>

\* scraper.fetch_causelist, a step raising (no such court_type, a missing
\* element, a timeout): the except returns an error
ScraperFetchCauselistError ==
    /\ pc = "causelist_scraper"
    /\ result' = [status |-> "error", message |-> <<"Cause list fetch error">>]
    /\ pc' = "causelist_fetched"
    /\ UNCHANGED <<arg, ret, ret2, env, driver, page, queries, judgments, downloads>>

\* the handler fills in the defaults and answers jsonify(result)
RespondCauselist ==
    /\ pc = "causelist_fetched"
    /\ ret' = [code |-> 200,
               body |-> IF "cases" \in DOMAIN result THEN result
                        ELSE [status |-> result.status, message |-> result.message,
                              cases |-> <<>>]]
    /\ pc' = "idle"
    /\ UNCHANGED <<arg, ret2, env, web>>

NextCauselist ==
    \/ ReceiveFetchCauselist
    \/ CauselistCreateScraper
    \/ CauselistCreateScraperFails
    \/ ScraperFetchCauselist
    \/ ScraperFetchCauselistError
    \/ RespondCauselist

SpecCauselist == InitCauselist /\ [][NextCauselist]_vars

\* the printable ASCII characters in the order of their code points (all
\* but the backquote)
CodePoints ==
    Chars(" !\"#$%&'()*+,-./0123456789:;<=>?@ABCDEFGHIJKLMNOPQRSTUVWXYZ[\\]^_abcdefghijklmnopqrstuvwxyz{|}~")

Ord(c) == CHOOSE i \in 1..Len(CodePoints) : CodePoints[i] = c

\* a <= b in the lexical order of str
LexLeq(a, b) ==
    \/ \E k \in 1..Len(b) :
          /\ k <= Len(a)
          /\ \A j \in 1..(k - 1) : a[j] = b[j]
          /\ Ord(a[k]) < Ord(b[k])
    \/ Len(a) <= Len(b) /\ \A j \in 1..Len(a) : a[j] = b[j]

SortedByTime(cases) ==
    \A i \in 1..Len(cases) : \A j \in i..Len(cases) : LexLeq(cases[i].time, cases[j].time)

\* C2: the cases a successful cause-list fetch returns, and the handler
\* answers with, are in ascending lexical order of their time strings.
C2_CauselistSorted ==
    /\ result.status = "success" => SortedByTime(result.cases)
    /\ ret.code = 200 => SortedByTime(ret.body.cases)

----------------------------------------------------------------------------
(* Fetching a case: app.fetch_case and CourtScraper.fetch_case_details     *)

CaseTable ==
    [class |-> "case-details",
     rows |-> << <<Cell("td", Chars("Petitioner Name")), Cell("td", Chars("John Doe"))>>,
                 <<Cell("td", Chars("Case Status")), Cell("td", Chars("Pending"))>> >>]

OrderLink == [text |-> Chars("Download Order"), href |-> Chars("x.pdf")]

\* the pages the portal may answer a search with: the case, no case, a
\* CAPTCHA challenge, and a challenge on a page that also shows a table
CasePages ==
    {Page(<<>>, <<CaseTable>>, <<OrderLink>>),
     Page(Chars("No records found"), <<>>, <<>>),
     Page(Chars("Please verify you are human"), <<>>, <<>>),
     Page(Chars("Security Check"), <<CaseTable>>, <<>>)}

\* a request the validators accept
ValidCaseRequest ==
    [case_type |-> Chars("WP"), case_number |-> Chars("123"), year |-> Chars("2024"),
     court_type |-> "high_court", court_name |-> "Delhi"]

\* the JSON bodies of the requests, after the defaults of data.get: the
\* valid request, and the requests that differ from it in one field, which
\* is missing, empty, invalid, or names the other kind of court
CaseRequests ==
    {ValidCaseRequest, [ValidCaseRequest EXCEPT !.court_type = "district_court"]}
        \cup {[ValidCaseRequest EXCEPT !.case_type = ct] : ct \in {None, Chars("W1")}}
        \cup {[ValidCaseRequest EXCEPT !.case_number = cn] : cn \in {<<>>, Chars("12 3!")}}
        \cup {[ValidCaseRequest EXCEPT !.year = y] : y \in {None, Chars("1800")}}

\* the most rows the table queries is let grow to
MaxQueries == 2

\* json.dumps(value): a JSON text of the value
json_dumps(value) == [json |-> value]

InitFetchCase ==
    /\ pc = "idle"
    /\ arg = NoRequest
    /\ ret = NoResponse
    /\ ret2 = None
    /\ InitEnvFixed

\* POST /api/fetch-case: the handler reads the request
ReceiveFetchCase ==
    /\ pc = "idle"
    /\ Len(queries) < MaxQueries
    /\ arg' \in CaseRequests
    /\ ret' = NoResponse
    /\ driver' = "none"
    /\ page' = BlankPage
    /\ result' = NoResult
    /\ pc' = "fetch_case"
    /\ UNCHANGED <<ret2, env, queries, judgments, downloads>>

\* all([case_type, case_number, year])
AllPresent(data) ==
    ~IsFalsy(data.case_type) /\ ~IsFalsy(data.case_number) /\ ~IsFalsy(data.year)

\* a required field is missing or empty: 400
FetchCaseMissingFields ==
    /\ pc = "fetch_case"
    /\ ~AllPresent(arg)
    /\ ret' = [code |-> 400,
               body |-> [error |-> <<"Missing required fields">>, status |-> "error"]]
    /\ pc' = "idle"
    /\ UNCHANGED <<arg, ret2, env, web>>

\* scraper = CourtScraper(): setup_driver starts the browser
FetchCaseCreateScraper ==
    /\ pc = "fetch_case"
    /\ AllPresent(arg)
    /\ driver' = "started"
    /\ pc' = "case_scraper"
    /\ UNCHANGED <<arg, ret, ret2, env, page, result, queries, judgments, downloads>>

\* webdriver.Chrome raises: the handler's except answers 500
FetchCaseCreateScraperFails ==
    /\ pc = "fetch_case"
    /\ AllPresent(arg)
    /\ ret' = [code |-> 500, body |-> [error |-> <<"exception">>, status |-> "error"]]
    /\ pc' = "idle"
    /\ UNCHANGED <<arg, ret2, env, web>>

\* scraper.fetch_case_details, every step of _fetch_high_court_case or
\* _fetch_district_court_case succeeding: the search is submitted and the
\* page that comes back is parsed
ScraperFetchCaseDetails ==
    /\ pc = "case_scraper"
    /\ \E served \in CasePages :
          /\ page' = served
          /\ result' = [status |-> "success",
                        parsed_data |-> _parse_case_details(served),
                        raw_html |-> served.html]
    /\ driver' = "loaded"
    /\ pc' = "case_fetched"
    /\ UNCHANGED <<arg, ret, ret2, env, queries, judgments, downloads>>

\* scraper.fetch_case_details, a step raising (no such case type in the
\* select, a missing element, a timeout): the except returns an error
ScraperFetchCaseDetailsError ==
    /\ pc = "case_scraper"
    /\ result' = [status |-> "error",
                  message |-> IF arg.court_type = "high_court"
                              THEN <<"High Court fetch error">>
                              ELSE <<"District Court fetch error">>]
    /\ pc' = "case_fetched"
    /\ UNCHANGED <<arg, ret, ret2, env, driver, page, queries, judgments, downloads>>

\* result.get('status') == 'error': 400 with the scraper's result
FetchCaseRespondError ==
    /\ pc = "case_fetched"
    /\ result.status = "error"
    /\ ret' = [code |-> 400, body |-> result]
    /\ pc' = "idle"
    /\ UNCHANGED <<arg, ret2, env, web>>

\* a row whose case_type and case_number columns are bound the wrong way round
QueryRowSwapped(id) ==
    [id |-> id, case_type |-> arg.case_number, case_number |-> arg.case_type,
     year |-> arg.year, court_type |-> arg.court_type, court_name |-> arg.court_name,
     query_time |-> current_year, raw_response |-> json_dumps(result.raw_html),
     parsed_data |-> json_dumps(result.parsed_data), status |-> "success"]

\* the row INSERT INTO queries stores for the request in hand
QueryRow(id) ==
    [id |-> id, case_type |-> arg.case_type, case_number |-> arg.case_number,
     year |-> arg.year, court_type |-> arg.court_type, court_name |-> arg.court_name,
     query_time |-> current_year, raw_response |-> json_dumps(result.raw_html),
     parsed_data |-> json_dumps(result.parsed_data), status |-> "success"]

\* the row is inserted and committed, and the result goes back with the
\* row's id (lastrowid of an AUTOINCREMENT key of a table nothing is deleted from)
FetchCaseStore ==
    /\ pc = "case_fetched"
    /\ result.status = "success"
    /\ queries' = Append(queries, QueryRow(Len(queries) + 1))
    /\ ret' = [code |-> 200,
               body |-> [status |-> "success", parsed_data |-> result.parsed_data,
                         raw_html |-> result.raw_html, query_id |-> Len(queries) + 1]]
    /\ pc' = "idle"
    /\ UNCHANGED <<arg, ret2, env, driver, page, result, judgments, downloads>>

\* sqlite3 raises before the commit: the handler's except answers 500
FetchCaseStoreFails ==
    /\ pc = "case_fetched"
    /\ result.status = "success"
    /\ ret' = [code |-> 500, body |-> [error |-> <<"exception">>, status |-> "error"]]
    /\ pc' = "idle"
    /\ UNCHANGED <<arg, ret2, env, web>>

NextFetchCase ==
    \/ ReceiveFetchCase
    \/ FetchCaseMissingFields
    \/ FetchCaseCreateScraper
    \/ FetchCaseCreateScraperFails
    \/ ScraperFetchCaseDetails
    \/ ScraperFetchCaseDetailsError
    \/ FetchCaseRespondError
    \/ FetchCaseStore
    \/ FetchCaseStoreFails

SpecFetchCase == InitFetchCase /\ [][NextFetchCase]_vars

\* the three validators accept the fields of the request in hand
RequestIsValid ==
    /\ validate_case_number(arg.case_number)[1]
    /\ validate_year(arg.year, current_year)[1]
    /\ validate_case_type(arg.case_type)[1]

\* C3: no browser session is started, and nothing is fetched, for a request
\* unless validate_case_number, validate_year and validate_case_type have
\* all accepted its fields.
C3_ValidationBeforeFetch ==
    (pc # "idle" /\ driver # "none") => RequestIsValid

\* C4: a page whose markup satisfies detect_captcha is not parsed into a
\* result of status success.
C4_CaptchaShortCircuits ==
    (driver = "loaded" /\ detect_captcha(page.html)) => result.status # "success"

----------------------------------------------------------------------------
(* The record extractor on its own: CourtScraper._parse_case_details       *)

\* labels of first cells: two rules at once, upper case, and no rule
DetailLabels ==
    {Chars("Petitioner Status"), Chars("Next Filing Date"), Chars(" NEXT Date "),
     Chars("Defendant"), Chars("Status"), Chars("Remarks")}

DetailValues == {Chars("A"), Chars(" B ")}

\* rows of two cells, and a row of one cell
DetailRows ==
    {<<Cell(c, l), Cell("td", v)>> : c \in {"td"}, l \in DetailLabels, v \in DetailValues}
        \cup {<<Cell("th", Chars("Status"))>>}

\* the most rows of a table of case details
MaxDetailRows == 2

\* the rows of test_parser's sample, as the specification quotes them
SampleTable ==
    [class |-> "case-details",
     rows |-> << <<Cell("td", Chars("Petitioner Name")), Cell("td", Chars("John Doe"))>>,
                 <<Cell("td", Chars("Respondent Name")), Cell("td", Chars("Jane Smith"))>>,
                 <<Cell("td", Chars("Case Status")), Cell("td", Chars("Pending"))>> >>]

\* a table nested in a cell of another: find_all('table') returns both, and
\* the outer table's find_all('tr') and its first row's find_all(['td',
\* 'th']) reach into the inner one
NestedTables ==
    LET inner == <<Cell("td", Chars("Status")), Cell("td", Chars("Disposed"))>>
        last == <<Cell("td", Chars("Case Status")), Cell("td", Chars("Pending"))>>
    IN  << [class |-> "outer",
            rows |-> <<<<Cell("td", Chars("StatusDisposed"))>> \o inner, inner, last>>],
           [class |-> "inner", rows |-> <<inner>>] >>

DetailTables ==
    {<<[class |-> "case-details", rows |-> r]>> : r \in StringsUpTo(DetailRows, MaxDetailRows)}
        \cup {<<>>, <<SampleTable>>, <<CaseTable, SampleTable>>, NestedTables}

DetailLinkTexts == {Chars(" View JUDGMENT "), Chars("Order"), Chars("Home")}

DetailLinkTargets == {Chars("a.PDF"), Chars("/Download/1"), Chars("index.html")}

\* the most links of a page of case details
MaxDetailLinks == 2

DetailLinks ==
    StringsUpTo({[text |-> t, href |-> h] : t \in DetailLinkTexts, h \in DetailLinkTargets},
                MaxDetailLinks)

InitParseCaseDetails ==
    /\ pc = "_parse_case_details"
    /\ \E tables \in DetailTables, links \in DetailLinks :
          /\ links = <<>> \/ tables \in {<<>>, <<SampleTable>>}
          /\ arg = Page(<<>>, tables, links)
    /\ ret = None
    /\ ret2 = None
    /\ InitEnvFixed

\* parsed = scraper._parse_case_details(soup)
CallParseCaseDetails ==
    /\ pc = "_parse_case_details"
    /\ ret' = _parse_case_details(arg)
    /\ pc' = "done"
    /\ UNCHANGED <<arg, ret2, env, web>>

NextParseCaseDetails == CallParseCaseDetails

SpecParseCaseDetails == InitParseCaseDetails /\ [][NextParseCaseDetails]_vars

\* the five text fields of a case record
TextFields == {"petitioner", "respondent", "filing_date", "next_hearing", "case_status"}

\* the priority table: whether rule n applies to a lower-cased label, and
\* the field rule n writes
RuleApplies(n, label) ==
    CASE n = 1 -> Contains(label, Chars("petitioner")) \/ Contains(label, Chars("plaintiff"))
      [] n = 2 -> Contains(label, Chars("respondent")) \/ Contains(label, Chars("defendant"))
      [] n = 3 -> Contains(label, Chars("filing")) /\ Contains(label, Chars("date"))
      [] n = 4 -> Contains(label, Chars("next"))
                    /\ (Contains(label, Chars("hearing")) \/ Contains(label, Chars("date")))
      [] n = 5 -> Contains(label, Chars("status"))

RuleField == <<"petitioner", "respondent", "filing_date", "next_hearing", "case_status">>

\* the fields the first applicable rule writes: one field, or none
FieldsByPriority(label) ==
    {RuleField[n] : n \in {m \in 1..5 : RuleApplies(m, label)
                                        /\ \A k \in 1..(m - 1) : ~RuleApplies(k, label)}}

\* the label of a row of at least two cells, as it is classified
LabelOf(row) == Lower(Strip(row[1].text))

\* the rows of all tables of the document in hand, table by table
DocumentRows == Flatten([i \in 1..Len(arg.tables) |-> arg.tables[i].rows])

\* a record no extraction can return: every field holds a marker
Marked == [f \in TextFields \cup {"judgments"} |-> <<"unset">>]

\* C11: a row of at least two cells writes the field of the first rule, in
\* the order petitioner/plaintiff, respondent/defendant, filing and date,
\* next and (hearing or date), status, that its lower-cased label satisfies,
\* and writes no other field.
C11_FirstMatchWins ==
    (pc = "done") =>
        \A i \in 1..Len(DocumentRows) :
            LET row == DocumentRows[i]
                after == ParseRow(Marked, row)
            IN  Len(row) >= 2 =>
                    /\ {f \in DOMAIN Marked : after[f] # Marked[f]}
                          = FieldsByPriority(LabelOf(row))
                    /\ (Len(DocumentRows) = 1 =>
                          \A f \in TextFields \ FieldsByPriority(LabelOf(row)) :
                              ret[f] = <<>>)

C11_Witness ==
    /\ pc = "done"
    /\ Len(DocumentRows) = 1
    /\ Len(DocumentRows[1]) = 2
    /\ DocumentRows[1][1].text = Chars("Petitioner Status")
    /\ ret.petitioner = Chars("A")
    /\ ret.case_status = <<>>

\* the rows, by position, whose label classifies to a field
RowsOfField(f) ==
    {i \in 1..Len(DocumentRows) :
        Len(DocumentRows[i]) >= 2 /\ f \in FieldsByPriority(LabelOf(DocumentRows[i]))}

MaxOf(S) == CHOOSE m \in S : \A n \in S : n <= m

\* C12: each text field ends as the stripped second-cell text of the last
\* row, over the rows of all tables in order, whose label classifies to it;
\* short rows and rows matching no rule change nothing, so a field no row
\* classifies to keeps its initial value.
C12_LastMatchWins ==
    (pc = "done") =>
        \A f \in TextFields :
            ret[f] = IF RowsOfField(f) = {} THEN EmptyParsed[f]
                     ELSE Strip(DocumentRows[MaxOf(RowsOfField(f))][2].text)

C12_Witness ==
    /\ pc = "done"
    /\ Cardinality(RowsOfField("case_status")) = 2
    /\ DocumentRows[1][2].text # DocumentRows[2][2].text
    /\ ret.case_status = Strip(DocumentRows[2][2].text)
    /\ ret.petitioner = <<>>

\* a link whose text names a judgment and whose target names a file
QualifiesAsJudgment(link) ==
    /\ \/ Contains(Lower(link.text), Chars("judgment"))
       \/ Contains(Lower(link.text), Chars("order"))
       \/ Contains(Lower(link.text), Chars("download"))
    /\ \/ Contains(Lower(link.href), Chars("pdf"))
       \/ Contains(Lower(link.href), Chars("download"))

\* the positions of the qualifying links of the document in hand
QualifyingLinks == {i \in 1..Len(arg.links) : QualifiesAsJudgment(arg.links[i])}

\* C13 as stated: a field no row matched is None.
C13_AsStated ==
    (pc = "done") => \A f \in TextFields : RowsOfField(f) = {} => ret[f] = None

\* C13: the extractor returns a record of exactly the six fields; a field no
\* row matched is the empty string, and judgments is the empty sequence when
\* no link qualifies.
C13_AlwaysSixFields ==
    (pc = "done") =>
        /\ DOMAIN ret = TextFields \cup {"judgments"}
        /\ \A f \in TextFields : RowsOfField(f) = {} => ret[f] = <<>>
        /\ QualifyingLinks = {} => ret.judgments = <<>>

C13_Witness ==
    /\ pc = "done"
    /\ arg.tables = <<SampleTable>>
    /\ arg.links = <<>>
    /\ ret.petitioner = Chars("John Doe")
    /\ ret.respondent = Chars("Jane Smith")
    /\ ret.case_status = Chars("Pending")
    /\ ret.filing_date = <<>>
    /\ ret.next_hearing = <<>>
    /\ ret.judgments = <<>>

\* C14: the judgments of the record are the links whose text contains
\* judgment, order or download and whose target contains pdf or download,
\* both without regard to case: all of them, no others, in document order,
\* a target that occurs twice being kept twice.
C14_JudgmentLinks ==
    (pc = "done") =>
        /\ Len(ret.judgments) = Cardinality(QualifyingLinks)
        /\ \A n \in 1..Len(ret.judgments) :
              \E i \in QualifyingLinks :
                  /\ Cardinality({k \in QualifyingLinks : k <= i}) = n
                  /\ ret.judgments[n].url = arg.links[i].href
                  /\ ret.judgments[n].text = Strip(arg.links[i].text)

C14_Witness ==
    /\ pc = "done"
    /\ Len(arg.links) = 2
    /\ arg.links[1] = arg.links[2]
    /\ arg.links[1].href = Chars("a.PDF")
    /\ Len(ret.judgments) = 2
    /\ ret.judgments[1].text = Chars("View JUDGMENT")

----------------------------------------------------------------------------
(* The cause-list extractor within a fetch: what SpecCauselist returns     *)

\* the cells of a row that count: its td elements
TdCells(row) == SelectSeq(row, IsTd)

\* the rows that must yield an entry, as <<table, row>> positions in the page
\* in hand: the rows after the first, with at least four cells, of the
\* tables of class causelist-table
EntryRows ==
    {tr \in (1..Len(page.tables)) \X (1..(MaxRows + 1)) :
        /\ page.tables[tr[1]].class = "causelist-table"
        /\ tr[2] >= 2
        /\ tr[2] <= Len(page.tables[tr[1]].rows)
        /\ Len(TdCells(page.tables[tr[1]].rows[tr[2]])) >= 4}

\* the place of an entry row among the entry rows, in document order
RankOf(tr) ==
    Cardinality({q \in EntryRows : q[1] < tr[1] \/ (q[1] = tr[1] /\ q[2] <= tr[2])})

\* C15: a successful cause-list fetch returns exactly one entry, built from
\* the stripped texts of cells 0..3 as case_number, parties, court_room and
\* time, for every row after the first with at least four td cells of every
\* table of class causelist-table, and nothing for first rows, shorter rows
\* and rows of other tables; with no such table it returns the empty list.
C15_CauselistEntries ==
    (result.status = "success") =>
        /\ Len(result.cases) = Cardinality(EntryRows)
        /\ \A tr \in EntryRows :
              LET cells == TdCells(page.tables[tr[1]].rows[tr[2]])
              IN  result.cases[RankOf(tr)] =
                      [case_number |-> Strip(cells[1].text), parties |-> Strip(cells[2].text),
                       court_room |-> Strip(cells[3].text), time |-> Strip(cells[4].text)]

C15_Witness ==
    /\ result.status = "success"
    /\ page.tables = <<OtherTable,
                       [class |-> "causelist-table",
                        rows |-> <<HeaderRow, DataRow(Chars("10:00 AM"))>>]>>
    /\ Len(result.cases) = 1
    /\ result.cases[1].court_room = Chars("5")
    /\ result.cases[1].time = Chars("10:00 AM")

----------------------------------------------------------------------------
(* utils_module.detect_captcha on its own                                  *)

\* texts of a page: the indicators in several cases, near misses, and none
CaptchaTexts ==
    {Chars("captcha"), Chars("CAPTCHA"), Chars("reCaptcha"), Chars("Security Check"),
     Chars("security  check"), Chars("Please verify you are human"),
     Chars("Verify You Are Human"), Chars("verify you are"), Chars("g-recaptcha"),
     Chars("G-ReCaptcha"), Chars("capt cha"), Chars("securitycheck"), Chars("human"),
     Chars("..."), <<>>}

CaptchaMarkups ==
    {open \o text \o close :
        open \in {<<>>, Chars("<div>"), Chars("<table>")},
        text \in CaptchaTexts,
        close \in {<<>>, Chars("</div>"), Chars("</table>")}}

InitDetectCaptcha ==
    /\ pc = "detect_captcha"
    /\ arg \in CaptchaMarkups
    /\ ret = None
    /\ ret2 = None
    /\ InitEnvFixed

\* detect_captcha(html_content)
CallDetectCaptcha ==
    /\ pc = "detect_captcha"
    /\ ret' = detect_captcha(arg)
    /\ pc' = "done"
    /\ UNCHANGED <<arg, ret2, env, web>>

NextDetectCaptcha == CallDetectCaptcha

SpecDetectCaptcha == InitDetectCaptcha /\ [][NextDetectCaptcha]_vars

\* the markup in hand, lower-cased, has the text at some position
LowerCasedHas(text) ==
    \E i \in 1..Len(arg) :
        /\ i + Len(text) - 1 <= Len(arg)
        /\ \A k \in 1..Len(text) : Lower(arg)[i + k - 1] = text[k]

\* C16: detect_captcha returns true exactly when the lower-cased markup
\* contains captcha, recaptcha, security check, verify you are human or
\* g-recaptcha; true for <div>Please verify you are human</div> and false
\* for <table>...</table>.
C16_DetectCaptcha ==
    (pc = "done") =>
        /\ ret = (\/ LowerCasedHas(Chars("captcha"))
                  \/ LowerCasedHas(Chars("recaptcha"))
                  \/ LowerCasedHas(Chars("security check"))
                  \/ LowerCasedHas(Chars("verify you are human"))
                  \/ LowerCasedHas(Chars("g-recaptcha")))
        /\ arg = Chars("<div>Please verify you are human</div>") => ret = TRUE
        /\ arg = Chars("<table>...</table>") => ret = FALSE

C16_Witness ==
    /\ pc = "done"
    /\ arg = Chars("<div>Security Check</div>")
    /\ ret = TRUE

----------------------------------------------------------------------------
(* utils_module.generate_query_hash                                        *)

IsPyInt(v) == Len(v) = 2 /\ v[1] = "int"

\* what an f-string puts for {v}: str(v)
FormatValue(v) ==
    IF IsPyInt(v) THEN DecimalDigits(v[2])
    ELSE IF v = None THEN Chars("None")
    ELSE v

\* hashlib.md5(s.encode()).hexdigest(): the digest of the text, a function
\* of the text alone; which texts share a digest is left open
md5_hexdigest(s) == [md5_of |-> s]

\* the f-string, not lower-cased
JoinedFields(case_type, case_number, year, court_name) ==
    FormatValue(case_type) \o <<"_">> \o FormatValue(case_number) \o <<"_">>
        \o FormatValue(year) \o <<"_">> \o FormatValue(court_name)

\* the digest of the f-string as it is
generate_query_hash_cased(case_type, case_number, year, court_name) ==
    md5_hexdigest(JoinedFields(case_type, case_number, year, court_name))

generate_query_hash(case_type, case_number, year, court_name) ==
    md5_hexdigest(Lower(JoinedFields(case_type, case_number, year, court_name)))

\* queries: a short code, a string, an integer year and a string, some of
\* them holding the character the fields are joined with
HashQueries ==
    [case_type : {Chars("WP"), Chars("wp"), Chars("Cr"), Chars("WP_1")},
     case_number : {Chars("1"), Chars("1a"), Chars("1A"), Chars("1_1a")},
     year : {PyInt(2024), PyInt(2025)},
     court_name : {Chars("Delhi"), Chars("DELHI"), Chars("a_1")}]

InitGenerateQueryHash ==
    /\ pc = "generate_query_hash"
    /\ arg \in HashQueries \X HashQueries
    /\ ret = NoResult
    /\ ret2 = NoResult
    /\ InitEnvFixed

\* generate_query_hash of the first query
CallGenerateQueryHash ==
    /\ pc = "generate_query_hash"
    /\ ret' = generate_query_hash(arg[1].case_type, arg[1].case_number, arg[1].year,
                                  arg[1].court_name)
    /\ pc' = "generate_query_hash_again"
    /\ UNCHANGED <<arg, ret2, env, web>>

\* generate_query_hash of the second query
CallGenerateQueryHashAgain ==
    /\ pc = "generate_query_hash_again"
    /\ ret2' = generate_query_hash(arg[2].case_type, arg[2].case_number, arg[2].year,
                                   arg[2].court_name)
    /\ pc' = "done"
    /\ UNCHANGED <<arg, ret, env, web>>

NextGenerateQueryHash == CallGenerateQueryHash \/ CallGenerateQueryHashAgain

SpecGenerateQueryHash == InitGenerateQueryHash /\ [][NextGenerateQueryHash]_vars

HashFields == {"case_type", "case_number", "year", "court_name"}

\* two field values are equal up to letter case
EqualUpToCase(a, b) ==
    IF IsPyInt(a) \/ IsPyInt(b) THEN a = b ELSE Lower(a) = Lower(b)

\* the fields in which the two queries in hand differ, letter case aside
DifferingFields == {f \in HashFields : ~EqualUpToCase(arg[1][f], arg[2][f])}

\* C17: two queries equal up to letter case, the same query twice among
\* them, get the identical digest; two queries that differ, letter case
\* aside, in exactly one field have different strings digested.
C17_QueryHash ==
    (pc = "done") =>
        /\ DifferingFields = {} => ret = ret2
        /\ Cardinality(DifferingFields) = 1 => ret.md5_of # ret2.md5_of

C17_Witness ==
    /\ pc = "done"
    /\ arg[1].case_type = Chars("WP") /\ arg[2].case_type = Chars("wp")
    /\ arg[1].court_name = Chars("Delhi") /\ arg[2].court_name = Chars("DELHI")
    /\ arg[1].case_number = arg[2].case_number
    /\ arg[1].year = arg[2].year
    /\ ret = ret2
    /\ ret.md5_of = Chars("wp_1a_2024_delhi")

----------------------------------------------------------------------------
(* Persistence of fetched cases: the table queries under SpecFetchCase     *)

QueryFields == {"case_type", "case_number", "year", "court_type", "court_name"}

\* the ids of the stored rows
StoredIds == {queries[i].id : i \in 1..Len(queries)}

\* this step answers the request in hand with the given code
Answers(code) == ret.code = 0 /\ ret'.code = code

\* this step stores exactly one row: the rows before it stay as they are, and
\* the new row has a fresh id, the query fields of the request in hand and
\* the record that is returned
StoresOneRow ==
    /\ Len(queries') = Len(queries) + 1
    /\ SubSeq(queries', 1, Len(queries)) = queries
    /\ LET row == queries'[Len(queries')]
       IN  /\ row.id \notin StoredIds
           /\ \A f \in QueryFields : row[f] = arg[f]
           /\ row.parsed_data = json_dumps(ret'.body.parsed_data)
           /\ ret'.body.query_id = row.id

\* C18: a fetch-case request that succeeds stores exactly one row, holding
\* its query fields with the case record, and returns that row's id as
\* query_id; a request that ends in an error stores no row; and no step
\* changes or removes a stored row, so every record stays in the one row
\* of the request that produced it.
C18_Persistence ==
    [][/\ Answers(200) => StoresOneRow
       /\ (Answers(400) \/ Answers(500)) => queries' = queries
       /\ queries' # queries => Answers(200)]_vars

C18_Witness ==
    /\ ret.code = 200
    /\ Len(queries) = 2
    /\ ret.body.query_id = 2
    /\ queries[2].id = 2
    /\ queries[1].id = 1
    /\ queries[2].case_number = arg.case_number
    /\ queries[2].case_type # queries[1].case_type
    /\ queries[2].parsed_data = json_dumps(ret.body.parsed_data)

----------------------------------------------------------------------------
(* Concurrent requests: the handlers of app.py run one thread a request.   *)
(*                                                                         *)
(* Here pc, arg, page and result hold one value for each client, and       *)
(* driver holds, for each client, the browser session of the CourtScraper  *)
(* its handler constructed.                                                *)

\* the number of clients with a request in flight at once
NumClients == 2

Clients == 1..NumClients

ConcurrentRequests ==
    {[path |-> "fetch-case", case_type |-> Chars("WP"), case_number |-> Chars("123"),
      year |-> Chars("2024"), court_type |-> "high_court", court_name |-> "Delhi"],
     [path |-> "fetch-causelist", court_type |-> "high_court", court_name |-> "Delhi",
      date |-> Chars("2026-03-15")],
     [path |-> "download-judgment", query_id |-> 1, judgment_url |-> Chars("x.pdf")]}

\* the page a search of the given kind may come back with
PagesFor(path) ==
    IF path = "fetch-case"
    THEN {Page(<<>>, <<CaseTable>>, <<OrderLink>>), Page(<<>>, <<SampleTable>>, <<>>)}
    ELSE {Page(<<>>, <<[class |-> "causelist-table", rows |-> <<HeaderRow, DataRow(t)>>]>>, <<>>) :
            t \in CauselistTimes}

NoSession == [state |-> "none", in_flight |-> 0]

InitConcurrent ==
    /\ pc = [c \in Clients |-> "idle"]
    /\ arg = [c \in Clients |-> NoRequest]
    /\ ret = NoResponse
    /\ ret2 = None
    /\ current_year = 2026
    /\ strftime_pads = TRUE
    /\ driver = [c \in Clients |-> NoSession]
    /\ page = [c \in Clients |-> BlankPage]
    /\ result = [c \in Clients |-> NoResult]
    /\ queries = <<>>
    /\ judgments = <<>>
    /\ downloads = {}

\* the fetch-case requests being handled
FetchingCase == {c \in Clients : pc[c] # "idle" /\ arg[c].path = "fetch-case"}

\* the session a shared, module-level scraper would give every handler
SharedSession(c) == 1

\* scraper = CourtScraper() in the handler: the session the handler of
\* client c drives is the one it constructed
SessionOf(c) == c

\* a handler thread starts on a request
ReceiveConcurrent(c) ==
    /\ pc[c] = "idle"
    /\ \E request \in ConcurrentRequests :
          /\ request.path = "fetch-case" =>
                Len(queries) + Cardinality(FetchingCase) < MaxQueries
          /\ arg' = [arg EXCEPT ![c] = request]
    /\ pc' = [pc EXCEPT ![c] = "handler"]
    /\ UNCHANGED <<ret, ret2, env, web>>

\* scraper = CourtScraper(): setup_driver starts a browser of its own
CreateScraperConcurrent(c) ==
    /\ pc[c] = "handler"
    /\ driver' = [driver EXCEPT ![c] = [state |-> "started", in_flight |-> 0]]
    /\ pc' = [pc EXCEPT ![c] = "scraper"]
    /\ UNCHANGED <<arg, ret, ret2, env, page, result, queries, judgments, downloads>>

\* self.driver.get(url), and later the click on the search button: the
\* call is made, and the thread blocks in it
BeginNavigation(c) ==
    /\ pc[c] \in {"scraper", "got"}
    /\ arg[c].path # "download-judgment"
    /\ driver' = [driver EXCEPT ![SessionOf(c)].in_flight = @ + 1]
    /\ pc' = [pc EXCEPT ![c] = IF pc[c] = "scraper" THEN "getting" ELSE "submitting"]
    /\ UNCHANGED <<arg, ret, ret2, env, page, result, queries, judgments, downloads>>

\* the call returns: the portal's page, and after the search the result page
EndNavigation(c) ==
    /\ pc[c] \in {"getting", "submitting"}
    /\ driver' = [driver EXCEPT ![SessionOf(c)].in_flight = @ - 1]
    /\ IF pc[c] = "getting"
       THEN /\ pc' = [pc EXCEPT ![c] = "got"]
            /\ page' = page
       ELSE /\ pc' = [pc EXCEPT ![c] = "loaded"]
            /\ \E served \in PagesFor(arg[c].path) :
                  page' = [page EXCEPT ![SessionOf(c)] = served]
    /\ UNCHANGED <<arg, ret, ret2, env, result, queries, judgments, downloads>>

\* the call raises (a timeout, a missing element): the except of the fetch
\* returns an error
NavigationFails(c) ==
    /\ pc[c] \in {"getting", "submitting"}
    /\ driver' = [driver EXCEPT ![SessionOf(c)].in_flight = @ - 1]
    /\ result' = [result EXCEPT ![c] = [status |-> "error", message |-> <<"fetch error">>]]
    /\ pc' = [pc EXCEPT ![c] = "respond"]
    /\ UNCHANGED <<arg, ret, ret2, env, page, queries, judgments, downloads>>

\* soup = BeautifulSoup(self.driver.page_source, ...) and the extractor
ExtractConcurrent(c) ==
    /\ pc[c] = "loaded"
    /\ result' = [result EXCEPT ![c] =
                    IF arg[c].path = "fetch-case"
                    THEN [status |-> "success",
                          parsed_data |-> _parse_case_details(page[SessionOf(c)]),
                          raw_html |-> page[SessionOf(c)].html]
                    ELSE [status |-> "success", date |-> arg[c].date,
                          court |-> arg[c].court_name,
                          cases |-> _parse_causelist(page[SessionOf(c)])]]
    /\ pc' = [pc EXCEPT ![c] = "respond"]
    /\ UNCHANGED <<arg, ret, ret2, env, driver, page, queries, judgments, downloads>>

\* scraper.download_judgment: requests.get, with no use of the browser
DownloadConcurrent(c) ==
    /\ pc[c] = "scraper"
    /\ arg[c].path = "download-judgment"
    /\ \E status \in {"downloaded", "error"} :
          result' = [result EXCEPT ![c] = [status |-> status]]
    /\ pc' = [pc EXCEPT ![c] = "respond"]
    /\ UNCHANGED <<arg, ret, ret2, env, driver, page, queries, judgments, downloads>>

\* the handler stores a fetched case, answers and returns; its scraper is
\* collected and __del__ quits the browser
RespondConcurrent(c) ==
    /\ pc[c] = "respond"
    /\ queries' =
          IF arg[c].path = "fetch-case" /\ result[c].status = "success"
          THEN Append(queries,
                      [id |-> Len(queries) + 1, case_type |-> arg[c].case_type,
                       case_number |-> arg[c].case_number, year |-> arg[c].year,
                       court_type |-> arg[c].court_type, court_name |-> arg[c].court_name,
                       query_time |-> current_year,
                       raw_response |-> json_dumps(result[c].raw_html),
                       parsed_data |-> json_dumps(result[c].parsed_data),
                       status |-> "success"])
          ELSE queries
    /\ driver' = [driver EXCEPT ![c] = NoSession]
    /\ pc' = [pc EXCEPT ![c] = "idle"]
    /\ arg' = [arg EXCEPT ![c] = NoRequest]
    /\ page' = [page EXCEPT ![c] = BlankPage]
    /\ result' = [result EXCEPT ![c] = NoResult]
    /\ UNCHANGED <<ret, ret2, env, judgments, downloads>>

NextConcurrent ==
    \E c \in Clients :
        \/ ReceiveConcurrent(c)
        \/ CreateScraperConcurrent(c)
        \/ BeginNavigation(c)
        \/ EndNavigation(c)
        \/ NavigationFails(c)
        \/ ExtractConcurrent(c)
        \/ DownloadConcurrent(c)
        \/ RespondConcurrent(c)

SpecConcurrent == InitConcurrent /\ [][NextConcurrent]_vars

\* C19: whatever the interleaving of the requests, no browser session has
\* more than one navigation in flight, a navigation in flight is that of
\* the handler owning the session, and what a request extracted is the
\* extractor's value on the page served to that request.
C19_OneNavigationPerSession ==
    \A c \in Clients :
        /\ driver[c].in_flight <= 1
        /\ driver[c].in_flight = 1 => pc[c] \in {"getting", "submitting"}
        /\ (pc[c] = "respond" /\ result[c].status = "success") =>
              IF arg[c].path = "fetch-case"
              THEN result[c].parsed_data = _parse_case_details(page[c])
              ELSE result[c].cases = _parse_causelist(page[c])

C19_Witness ==
    /\ pc[1] = "submitting"
    /\ pc[2] = "getting"
    /\ arg[1].path = "fetch-case"
    /\ arg[2].path = "fetch-causelist"
    /\ driver[1].in_flight = 1
    /\ driver[2].in_flight = 1

----------------------------------------------------------------------------
(* utils_module.retry_on_failure                                           *)
(*                                                                         *)
(* arg is the call's max_attempts and delay; ret2 is the loop's attempt    *)
(* with a log of what happened: the calls of func made, the sleeps taken,  *)
(* whether a call of func returned, and the exception of the latest call   *)
(* that raised; ret is how retry_on_failure itself ended.                  *)

\* the largest max_attempts tried
MaxAttempts == 3

RetryArguments == [max_attempts : -1..MaxAttempts, delay : {0, 1, 2}]

\* what a call of func may return, and what it may raise
FuncValues == {<<"value">>, None}

FuncExceptions == {<<"TimeoutException">>, <<"ValueError">>}

InitRetryOnFailure ==
    /\ pc = "for"
    /\ arg \in RetryArguments
    /\ ret = NoResult
    /\ ret2 = [attempt |-> 0, calls |-> 0, sleeps |-> 0, slept |-> 0, succeeded |-> FALSE,
               last_exception |-> None]
    /\ InitEnvFixed

\* for attempt in range(max_attempts): return func(), func returning
RetryFuncReturns ==
    /\ pc = "for"
    /\ ret2.attempt < arg.max_attempts
    /\ \E value \in FuncValues : ret' = [status |-> "returned", value |-> value]
    /\ ret2' = [ret2 EXCEPT !.calls = @ + 1, !.succeeded = TRUE]
    /\ pc' = "done"
    /\ UNCHANGED <<arg, env, web>>

\* func raises before the last attempt: the warning, time.sleep(delay), and
\* the next turn of the loop
RetryFuncRaises ==
    /\ pc = "for"
    /\ ret2.attempt < arg.max_attempts - 1
    /\ \E e \in FuncExceptions :
          ret2' = [ret2 EXCEPT !.calls = @ + 1, !.sleeps = @ + 1, !.slept = @ + arg.delay,
                               !.attempt = @ + 1, !.last_exception = e]
    /\ UNCHANGED <<pc, arg, ret, env, web>>

\* func raises at the last attempt: the error is logged and re-raised
RetryFuncRaisesLast ==
    /\ pc = "for"
    /\ ret2.attempt < arg.max_attempts
    /\ ret2.attempt >= arg.max_attempts - 1
    /\ \E e \in FuncExceptions :
          /\ ret2' = [ret2 EXCEPT !.calls = @ + 1, !.last_exception = e]
          /\ ret' = [status |-> "raised", exception |-> e]
    /\ pc' = "done"
    /\ UNCHANGED <<arg, env, web>>

\* range(max_attempts) is exhausted with no return and no raise: the
\* function falls off its end and returns None
RetryLoopExhausted ==
    /\ pc = "for"
    /\ ret2.attempt >= arg.max_attempts
    /\ ret' = [status |-> "returned", value |-> None]
    /\ pc' = "done"
    /\ UNCHANGED <<arg, ret2, env, web>>

NextRetryOnFailure ==
    \/ RetryFuncReturns
    \/ RetryFuncRaises
    \/ RetryFuncRaisesLast
    \/ RetryLoopExhausted

SpecRetryOnFailure == InitRetryOnFailure /\ [][NextRetryOnFailure]_vars

\* C20: retry_on_failure calls func at most max_attempts times, stops at
\* the first call that returns and returns its result; when every call
\* raised it raises the last call's exception; it sleeps delay between two
\* attempts only, never after the last; and whenever it returns normally,
\* for max_attempts <= 0 too, a call of func has succeeded.
C20_RetryOnFailure ==
    /\ ret2.calls <= IF arg.max_attempts > 0 THEN arg.max_attempts ELSE 0
    /\ ret2.succeeded => pc = "done"
    /\ (pc = "done") =>
          /\ ret2.sleeps = (IF ret2.calls > 0 THEN ret2.calls - 1 ELSE 0)
          /\ ret2.slept = ret2.sleeps * arg.delay
          /\ ret.status = "returned" => ret2.succeeded
          /\ ret.status = "raised" =>
                /\ ~ret2.succeeded
                /\ ret2.calls = arg.max_attempts
                /\ ret.exception = ret2.last_exception

----------------------------------------------------------------------------
(* The query identity as a key: generate_query_hash on distinct queries    *)

\* C22: two queries that differ, letter case aside, in at least one of
\* case_type, case_number, year and court_name are joined into different
\* strings before digesting, whether or not a field holds the joining '_'.
C22_IdentitySeparates ==
    (pc = "done" /\ DifferingFields # {}) => ret.md5_of # ret2.md5_of

----------------------------------------------------------------------------
(* Downloading a judgment: app.download_judgment and                       *)
(* CourtScraper.download_judgment, next to the fetch-case handler          *)

\* the JSON bodies of the requests: query_id and judgment_url as data.get
\* returns them, None when the key is missing
DownloadRequests ==
    [path : {"download-judgment"},
     query_id : {None, PyInt(1), PyInt(7)},
     judgment_url : {None, Chars("x.pdf")}]

\* the most rows the table judgments is let grow to
MaxJudgments == 1

\* os.path.join('downloads', f"judgment_{query_id}_{timestamp}.pdf")
DownloadPath(query_id) ==
    Chars("downloads/judgment_") \o FormatValue(query_id) \o Chars("_")
        \o DecimalDigits(current_year) \o Chars("0315_101500.pdf")

\* POST /api/download-judgment: the handler reads the request
ReceiveDownload ==
    /\ pc = "idle"
    /\ Len(judgments) < MaxJudgments
    /\ arg' \in DownloadRequests
    /\ ret' = NoResponse
    /\ driver' = "none"
    /\ page' = BlankPage
    /\ result' = NoResult
    /\ pc' = "download_judgment"
    /\ UNCHANGED <<ret2, env, queries, judgments, downloads>>

\* if not judgment_url: 400
DownloadNoUrl ==
    /\ pc = "download_judgment"
    /\ IsFalsy(arg.judgment_url)
    /\ ret' = [code |-> 400,
               body |-> [error |-> <<"No judgment URL provided">>, status |-> "error"]]
    /\ pc' = "idle"
    /\ UNCHANGED <<arg, ret2, env, web>>

\* scraper = CourtScraper(): setup_driver starts the browser
DownloadCreateScraper ==
    /\ pc = "download_judgment"
    /\ ~IsFalsy(arg.judgment_url)
    /\ driver' = "started"
    /\ pc' = "download_scraper"
    /\ UNCHANGED <<arg, ret, ret2, env, page, result, queries, judgments, downloads>>

\* webdriver.Chrome raises: the handler's except answers 500
DownloadCreateScraperFails ==
    /\ pc = "download_judgment"
    /\ ~IsFalsy(arg.judgment_url)
    /\ ret' = [code |-> 500, body |-> [error |-> <<"exception">>, status |-> "error"]]
    /\ pc' = "idle"
    /\ UNCHANGED <<arg, ret2, env, web>>

\* scraper.download_judgment, every step succeeding: the response is
\* written to the file and the path is returned
ScraperDownloadJudgment ==
    /\ pc = "download_scraper"
    /\ downloads' = downloads \cup {DownloadPath(arg.query_id)}
    /\ result' = [status |-> "downloaded", file_path |-> DownloadPath(arg.query_id)]
    /\ pc' = "downloaded"
    /\ UNCHANGED <<arg, ret, ret2, env, driver, page, queries, judgments>>

\* scraper.download_judgment, requests.get or raise_for_status raising: the
\* except returns None, and no file was opened
ScraperDownloadJudgmentFails ==
    /\ pc = "download_scraper"
    /\ result' = [status |-> "failed", file_path |-> None]
    /\ pc' = "downloaded"
    /\ UNCHANGED <<arg, ret, ret2, env, driver, page, queries, judgments, downloads>>

\* file_path and os.path.exists(file_path)
FileIsThere == result.file_path # None /\ result.file_path \in downloads

\* the row INSERT INTO judgments stores: query_id is the request's, as given
JudgmentRow(id) ==
    [id |-> id, query_id |-> arg.query_id, filename |-> basename(result.file_path),
     file_path |-> result.file_path, download_time |-> current_year]

\* the row is inserted and committed, and the file is sent
DownloadStore ==
    /\ pc = "downloaded"
    /\ FileIsThere
    /\ judgments' = Append(judgments, JudgmentRow(Len(judgments) + 1))
    /\ ret' = [code |-> 200, body |-> [status |-> "file", file_path |-> result.file_path]]
    /\ pc' = "idle"
    /\ UNCHANGED <<arg, ret2, env, driver, page, result, queries, downloads>>

\* sqlite3 raises before the commit: the handler's except answers 500
DownloadStoreFails ==
    /\ pc = "downloaded"
    /\ FileIsThere
    /\ ret' = [code |-> 500, body |-> [error |-> <<"exception">>, status |-> "error"]]
    /\ pc' = "idle"
    /\ UNCHANGED <<arg, ret2, env, web>>

\* no file: 500
DownloadRespondFailed ==
    /\ pc = "downloaded"
    /\ ~FileIsThere
    /\ ret' = [code |-> 500,
               body |-> [error |-> <<"Failed to download judgment">>, status |-> "error"]]
    /\ pc' = "idle"
    /\ UNCHANGED <<arg, ret2, env, web>>

NextDownloads ==
    \/ NextFetchCase
    \/ ReceiveDownload
    \/ DownloadNoUrl
    \/ DownloadCreateScraper
    \/ DownloadCreateScraperFails
    \/ ScraperDownloadJudgment
    \/ ScraperDownloadJudgmentFails
    \/ DownloadStore
    \/ DownloadStoreFails
    \/ DownloadRespondFailed

SpecDownloads == InitFetchCase /\ [][NextDownloads]_vars

\* C21: every row of judgments has the id of a stored queries row as its
\* query_id, and the file it names is on disk.
C21_ReferentialIntegrity ==
    \A i \in 1..Len(judgments) :
        /\ \E k \in 1..Len(queries) : judgments[i].query_id = PyInt(queries[k].id)
        /\ judgments[i].file_path \in downloads

====
